---- MODULE Spec2Model ----
(***************************************************************************)
(* Model of pulselistener's MercurialWorker                                *)
(* (src/src/pulselistener/pulselistener/mercurial.py): the bootstrap       *)
(* checkout, the worker loop over the asyncio queue, handle_build and the  *)
(* push_to_try pipeline, one action per call the code makes.               *)
(*                                                                         *)
(* hglib, batch_checkout and the Phabricator API are collaborators whose   *)
(* code is outside the repository: every call to them either returns or    *)
(* raises, chosen nondeterministically.                                    *)
(***************************************************************************)
EXTENDS Integers, Sequences, FiniteSets, TLC

\* ---- bounds ----
MaxEntries == 2   \* entries the producer enqueues in one behaviour
MaxStack == 2     \* longest patch stack load_patches_stack returns

\* ---- values ----
NULL == "None"
BuildTargets == {NULL, "PHID-HMBT-1"}
Nodes == {"node-B", "node-C"}
NoEntry == [id |-> 0, build_target_phid |-> NULL, isDict |-> FALSE, hasPhid |-> FALSE, phid |-> NULL]
NoConfig == [version |-> 0, target_tasks_method |-> "none", optimize_target_tasks |-> FALSE, phabricator_diff |-> NULL]
NoFailure == [name |-> "none", result |-> "none", details |-> "none"]
\* a bytes object, as hglib gives the stderr of a command
Bytes(text) == [bytes |-> text]

\* bytes.decode('utf-8')
Decode(b) == b.bytes

NoError == [type |-> "none", err |-> Bytes("")]

\* the (build_target_phid, diff) pairs a producer may put on the queue; a
\* diff is a dict with a 'phid' key, a dict without it, or not a dict
DiffShapes == {<<TRUE, TRUE>>, <<TRUE, FALSE>>, <<FALSE, FALSE>>}

Entry(i, bt, shape) ==
    [id |-> i, build_target_phid |-> bt, isDict |-> shape[1], hasPhid |-> shape[2],
     phid |-> IF shape[2] THEN "PHID-DIFF-" \o ToString(i) ELSE NULL]

\* exceptions raised by the collaborators
CommandError(stderr) == [type |-> "CommandError", err |-> Bytes(stderr)]
GenericException(msg) == [type |-> "Exception", err |-> msg]
AssertionError(msg) == [type |-> "AssertionError", err |-> msg]

\* stderr texts of a failing version-control command
EmptyRevset == "abort: empty revision set"
EmptyRevsetStderr == "abort: empty revision set\n"
OtherStderr == "abort: command failed\n"

\* sub in s of Python, for str and bytes
Contains(s, sub) ==
    \E i \in 1..(Len(s) - Len(sub) + 1) : SubSeq(s, i, i + Len(sub) - 1) = sub

VARIABLES
    pc,                  \* position of the worker coroutine
    queue,               \* self.queue, FIFO of entries
    publish_phabricator, \* self.publish_phabricator
    repoOpen,            \* self.repo was opened by hglib.open
    checkout,            \* outcome of batch_checkout: "pending", "done", "failed"
    bootstrapRuns,       \* number of batch_checkout executions
    dirty,               \* the working tree has uncommitted changes
    drafts,              \* local commits not on the remote, oldest first
    cur,                 \* (build_target_phid, diff) being handled
    base,                \* base returned by load_patches_stack
    patches,             \* patches returned by load_patches_stack
    commits,             \* stack phids that have an original commit message
    idx,                 \* position of the import loop in patches
    config,              \* local variable config of push_to_try
    commit,              \* node of self.repo.tip()
    failure,             \* local variable failure of handle_build
    hbExit,              \* how the last handle_build ended
    acks,                \* number of queue.task_done() calls
    enqueued,            \* ids of the entries put on the queue, in order
    dequeued,            \* ids of the entries taken from the queue, in order
    started,             \* ids of the entries handle_build was called for
    running,             \* ids of the entries whose run is in progress
    ops,                 \* version-control commands issued by the current run
    calls,               \* Phabricator API calls issued by the current run
    pushed,              \* revisions pushed to try by the current run
    treeAtStart,         \* <<dirty, drafts>> when the current run started
    stripErr,            \* exception of the strip of the current run's clean()
    ssh_key_file,        \* the file at self.ssh_key_path exists
    exitHow              \* how the process ended, "none" while it runs

vars == <<pc, queue, publish_phabricator, repoOpen, checkout, bootstrapRuns, dirty, drafts,
          cur, base, patches, commits, idx, config, commit, failure, hbExit, acks,
          enqueued, dequeued, started, running, ops, calls, pushed, treeAtStart,
          stripErr, ssh_key_file, exitHow>>

procVars == <<ssh_key_file, exitHow>>
confVars == <<publish_phabricator, repoOpen, checkout, bootstrapRuns>>
stackVars == <<base, patches, commits>>
logVars == <<enqueued, dequeued, started, acks>>

Init ==
    /\ pc = "bootstrap"
    /\ queue = <<>>
    /\ publish_phabricator \in BOOLEAN
    /\ repoOpen = FALSE
    /\ checkout = "pending"
    /\ bootstrapRuns = 0
    /\ dirty = FALSE
    /\ drafts = <<>>
    /\ cur = NoEntry
    /\ base = NULL
    /\ patches = <<>>
    /\ commits = {}
    /\ idx = 0
    /\ config = NoConfig
    /\ commit = NULL
    /\ failure = NoFailure
    /\ hbExit = "none"
    /\ acks = 0
    /\ enqueued = <<>>
    /\ dequeued = <<>>
    /\ started = <<>>
    /\ running = {}
    /\ ops = <<>>
    /\ calls = <<>>
    /\ pushed = <<>>
    /\ treeAtStart = <<FALSE, <<>>>>
    /\ stripErr = NoError
    /\ ssh_key_file = TRUE
    /\ exitHow = "none"

\* ---- the producer ----

\* the points where the worker coroutine is suspended and other tasks of the
\* event loop (the producer) run: the executor await, queue.get, the sleeps;
\* once run() has ended with an exception the producer runs alone
ProducerRuns == {"bootstrap", "dequeue", "pts_sleep", "import_sleep", "crashed", "fatal"}

\* an external collaborator puts an entry on the queue
Enqueue ==
    /\ pc \in ProducerRuns
    /\ Len(enqueued) < MaxEntries
    /\ \E bt \in BuildTargets, shape \in DiffShapes :
         LET e == Entry(Len(enqueued) + 1, bt, shape) IN
         /\ queue' = Append(queue, e)
         /\ enqueued' = Append(enqueued, e.id)
    /\ UNCHANGED <<pc, confVars, dirty, drafts, cur, stackVars, idx, config, commit,
                   failure, hbExit, acks, dequeued, started, running, ops, calls,
                   pushed, treeAtStart, stripErr, procVars>>

\* ---- MercurialWorker.run ----

BootstrapNext_Swallow(ok) == "open_repo"

\* an exception of the awaited batch_checkout leaves run()
BootstrapNext(ok) == IF ok THEN "open_repo" ELSE "fatal"

\* batch_checkout in the process pool
Bootstrap ==
    /\ pc = "bootstrap"
    /\ \E ok \in BOOLEAN :
         /\ checkout' = IF ok THEN "done" ELSE "failed"
         /\ pc' = BootstrapNext(ok)
    /\ bootstrapRuns' = bootstrapRuns + 1
    /\ UNCHANGED <<queue, publish_phabricator, repoOpen, dirty, drafts, cur, stackVars,
                   idx, config, commit, failure, hbExit, logVars, running, ops,
                   calls, pushed, treeAtStart, stripErr, procVars>>

\* hglib.open(self.repo_dir)
OpenRepo ==
    /\ pc = "open_repo"
    /\ \E ok \in BOOLEAN :
         /\ repoOpen' = ok
         /\ pc' = IF ok THEN "dequeue" ELSE "fatal"
    /\ UNCHANGED <<queue, publish_phabricator, checkout, bootstrapRuns, dirty, drafts,
                   cur, stackVars, idx, config, commit, failure, hbExit, logVars,
                   running, ops, calls, pushed, treeAtStart, stripErr, procVars>>

QueueGet_Lifo(q) == q[Len(q)]

\* asyncio.Queue.get returns the oldest entry
QueueGet(q) == Head(q)

CanDequeue_Concurrent(p) == p \in {"dequeue", "pts_sleep", "import_sleep"}

\* the loop reaches queue.get only after handle_build and task_done
CanDequeue(p) == p = "dequeue"

\* the two asserts on the dequeued diff
ValidDiff(e) == e.isDict /\ e.hasPhid

\* queue.get, the asserts, and the call of handle_build up to its first await
Dequeue ==
    /\ CanDequeue(pc)
    /\ queue # <<>>
    /\ LET e == QueueGet(queue) IN
         /\ queue' = Tail(queue)
         /\ dequeued' = Append(dequeued, e.id)
         /\ cur' = e
         /\ IF ValidDiff(e)
            THEN /\ pc' = "pts_sleep"
                 /\ started' = Append(started, e.id)
                 /\ running' = running \cup {e.id}
            ELSE /\ pc' = "crashed"
                 /\ UNCHANGED <<started, running>>
    /\ base' = NULL
    /\ patches' = <<>>
    /\ commits' = {}
    /\ idx' = 0
    /\ config' = NoConfig
    /\ commit' = NULL
    /\ failure' = NoFailure
    /\ hbExit' = "none"
    /\ ops' = <<>>
    /\ calls' = <<>>
    /\ pushed' = <<>>
    /\ treeAtStart' = <<dirty, drafts>>
    /\ stripErr' = NoError
    /\ UNCHANGED <<confVars, dirty, drafts, acks, enqueued, procVars>>

\* self.queue.task_done()
TaskDone ==
    /\ pc = "task_done"
    /\ acks' = acks + 1
    /\ pc' = "dequeue"
    /\ UNCHANGED <<queue, confVars, dirty, drafts, cur, stackVars, idx, config, commit,
                   failure, hbExit, enqueued, dequeued, started, running, ops, calls,
                   pushed, treeAtStart, stripErr, procVars>>

\* ---- MercurialWorker.handle_build ----

UnitResult(name, result, details) == [name |-> name, result |-> result, details |-> details]

\* the remarkup code fence of the details, three backquotes in the source
\* (a character the strings of this module cannot hold)
Fence == "~~~"

\* the two except clauses: the UnitResult built for the exception e
HandleException(e) ==
    IF e.type = "CommandError"
    THEN UnitResult("mercurial", "Fail",
                    "WARNING: The code review bot failed to apply your patch.\n\n" \o Fence
                        \o Decode(e.err) \o Fence)
    ELSE UnitResult("general", "Broken",
                    "WARNING: An error occured in the code review bot.\n\n" \o Fence
                        \o e.err \o Fence)

\* an exception raised inside push_to_try is caught by handle_build
Raise(e) ==
    /\ failure' = HandleException(e)
    /\ pc' = "hb_revert"

Revert_Noop(d) == d

\* repo.revert(all=True) discards every uncommitted change
Revert(d) == FALSE

\* if failure is not None: self.repo.revert(...); its exception leaves handle_build
HbRevert ==
    /\ pc = "hb_revert"
    /\ ops' = Append(ops, "revert")
    /\ \E ok \in BOOLEAN :
         IF ok
         THEN /\ dirty' = Revert(dirty)
              /\ pc' = "hb_report"
              /\ UNCHANGED <<hbExit, running>>
         ELSE /\ hbExit' = "raised"
              /\ running' = running \ {cur.id}
              /\ pc' = "crashed"
              /\ UNCHANGED dirty
    /\ UNCHANGED <<queue, confVars, drafts, cur, stackVars, idx, config, commit, failure,
                   logVars, calls, pushed, treeAtStart, stripErr, procVars>>

ShouldReport_Always(publish) == TRUE

\* if self.publish_phabricator: on the failure path
ShouldReport(publish) == publish

\* if self.publish_phabricator: update_build_target(...); return False
HbReport ==
    /\ pc = "hb_report"
    /\ IF ShouldReport(publish_phabricator)
       THEN /\ calls' = Append(calls, [op |-> "update_build_target",
                                       target |-> cur.build_target_phid,
                                       arg |-> failure])
            /\ \E ok \in BOOLEAN :
                 /\ hbExit' = IF ok THEN "False" ELSE "raised"
                 /\ pc' = IF ok THEN "task_done" ELSE "crashed"
       ELSE /\ hbExit' = "False"
            /\ pc' = "task_done"
            /\ UNCHANGED calls
    /\ running' = running \ {cur.id}
    /\ UNCHANGED <<queue, confVars, dirty, drafts, cur, stackVars, idx, config, commit,
                   failure, logVars, ops, pushed, treeAtStart, stripErr, procVars>>

\* ---- MercurialWorker.push_to_try and clean ----

\* await asyncio.sleep(2)
PtsSleep ==
    /\ pc = "pts_sleep"
    /\ pc' = "clean_strip"
    /\ UNCHANGED <<queue, confVars, dirty, drafts, cur, stackVars, idx, config, commit,
                   failure, hbExit, logVars, running, ops, calls, pushed, treeAtStart, stripErr, procVars>>

StripSwallowed_Any(e) == TRUE

\* the except clause of clean: only the empty revision set is swallowed
StripSwallowed(e) == Contains(e.err.bytes, EmptyRevset)

Strip_Keep(d) == d

\* hg strip roots(outgoing()) removes every local draft
Strip(d) == <<>>

\* clean: strip of the drafts; hg aborts on an empty revision set
CleanStrip ==
    /\ pc = "clean_strip"
    /\ ops' = Append(ops, "strip")
    /\ \E e \in {NoError, CommandError(EmptyRevsetStderr), CommandError(OtherStderr)} :
         /\ e = NoError => drafts # <<>>
         /\ e = CommandError(EmptyRevsetStderr) => drafts = <<>>
         /\ stripErr' = e
         /\ IF e = NoError
            THEN /\ drafts' = Strip(drafts)
                 /\ pc' = "clean_pull"
                 /\ UNCHANGED failure
            ELSE /\ UNCHANGED drafts
                 /\ IF StripSwallowed(e)
                    THEN pc' = "clean_pull" /\ UNCHANGED failure
                    ELSE Raise(e)
    /\ UNCHANGED <<queue, confVars, dirty, cur, stackVars, idx, config, commit, hbExit,
                   logVars, running, calls, pushed, treeAtStart, procVars>>

\* clean: self.repo.pull()
CleanPull ==
    /\ pc = "clean_pull"
    /\ ops' = Append(ops, "pull")
    /\ \/ pc' = "load_stack" /\ UNCHANGED failure
       \/ Raise(CommandError(OtherStderr))
    /\ UNCHANGED <<queue, confVars, dirty, drafts, cur, stackVars, idx, config, commit,
                   hbExit, logVars, running, calls, pushed, treeAtStart, stripErr, procVars>>

\* a stack of n entries, (diff_phid, patch) pairs
Stack(n) == [i \in 1..n |-> [phid |-> "PHID-DIFF-S" \o ToString(i),
                             patch |-> "patch-" \o ToString(i)]]

StackPhids_First(ps) == <<ps[1].phid>>

\* diff_phid=[p[0] for p in patches]
StackPhids(ps) == [i \in 1..Len(ps) |-> ps[i].phid]

StackAssert_Off(ps) == TRUE

\* assert len(patches) > 0
StackAssert(ps) == Len(ps) > 0

\* load_patches_stack and the assert on its result
LoadStack ==
    /\ pc = "load_stack"
    /\ calls' = Append(calls, [op |-> "load_patches_stack", target |-> cur.phid, arg |-> "central"])
    /\ \/ \E n \in 0..MaxStack, b \in Nodes :
            /\ base' = b
            /\ patches' = Stack(n)
            /\ IF StackAssert(patches')
               THEN pc' = "search_diffs" /\ UNCHANGED failure
               ELSE Raise(AssertionError("No patches to apply"))
       \/ /\ Raise(GenericException("load_patches_stack failed"))
          /\ UNCHANGED <<base, patches>>
    /\ UNCHANGED <<queue, confVars, dirty, drafts, cur, commits, idx, config, commit,
                   hbExit, logVars, running, ops, pushed, treeAtStart, stripErr, procVars>>

LoopNext_Skip(i, ps) == "write_config"

\* the for loop over patches: the next position after i - 1 entries
LoopNext(i, ps) == IF i <= Len(ps) THEN "import" ELSE "write_config"

\* search_diffs for all the stack's phids, and the commits dict
SearchDiffs ==
    /\ pc = "search_diffs"
    /\ calls' = Append(calls, [op |-> "search_diffs", target |-> NULL, arg |-> StackPhids(patches)])
    /\ \/ \E withMessage \in SUBSET {patches[i].phid : i \in 1..Len(patches)} :
            /\ commits' = withMessage
            /\ idx' = 1
            /\ pc' = LoopNext(1, patches)
            /\ UNCHANGED failure
       \/ /\ Raise(GenericException("search_diffs failed"))
          /\ UNCHANGED <<commits, idx>>
    /\ UNCHANGED <<queue, confVars, dirty, drafts, cur, base, patches, config, commit,
                   hbExit, logVars, running, ops, pushed, treeAtStart, stripErr, procVars>>

\* commit[0]['message'] of the diff, as search_diffs returned it
OriginalMessage(diff_phid) == "message of " \o diff_phid

Message_TrailerOnly(withMessage, diff_phid) == "Differential Diff: " \o diff_phid

\* the message of the commit made for one stack entry
Message(withMessage, diff_phid) ==
    (IF diff_phid \in withMessage THEN OriginalMessage(diff_phid) \o "\n" ELSE "")
        \o "Differential Diff: " \o diff_phid

CommitRecord(user, message, patch, cfg) ==
    [user |-> user, message |-> message, patch |-> patch, config |-> cfg]

\* self.repo.import_ of patches[idx]; a failing import may leave changes behind
Import ==
    /\ pc = "import"
    /\ ops' = Append(ops, "import")
    /\ \/ /\ drafts' = Append(drafts, CommitRecord("pulselistener",
                                                   Message(commits, patches[idx].phid),
                                                   patches[idx].patch, NoConfig))
          /\ pc' = "import_sleep"
          /\ UNCHANGED <<dirty, failure>>
       \/ /\ dirty' \in BOOLEAN
          /\ Raise(CommandError(OtherStderr))
          /\ UNCHANGED drafts
    /\ UNCHANGED <<queue, confVars, cur, stackVars, idx, config, commit, hbExit,
                   logVars, running, calls, pushed, treeAtStart, stripErr, procVars>>

\* await asyncio.sleep(1), then the next entry of the stack
ImportSleep ==
    /\ pc = "import_sleep"
    /\ idx' = idx + 1
    /\ pc' = LoopNext(idx + 1, patches)
    /\ UNCHANGED <<queue, confVars, dirty, drafts, cur, stackVars, config, commit,
                   failure, hbExit, logVars, running, ops, calls, pushed, treeAtStart, stripErr, procVars>>

Or_Second(x, y) == y

\* x or y of Python for the build target, None being false
Or(x, y) == IF x # NULL THEN x ELSE y

\* the config dict of push_to_try
TryTaskConfig(build_target_phid, diff) ==
    [version |-> 2, target_tasks_method |-> "codereview", optimize_target_tasks |-> TRUE,
     phabricator_diff |-> Or(build_target_phid, diff.phid)]

\* json.dump of the config into try_task_config.json
WriteConfig ==
    /\ pc = "write_config"
    /\ config' = TryTaskConfig(cur.build_target_phid, cur)
    /\ \/ /\ dirty' = TRUE
          /\ pc' = "add_config"
          /\ UNCHANGED failure
       \/ /\ Raise(GenericException("cannot write try_task_config.json"))
          /\ UNCHANGED dirty
    /\ UNCHANGED <<queue, confVars, drafts, cur, stackVars, idx, commit, hbExit,
                   logVars, running, ops, calls, pushed, treeAtStart, stripErr, procVars>>

\* self.repo.add(config_path)
AddConfig ==
    /\ pc = "add_config"
    /\ ops' = Append(ops, "add")
    /\ \/ pc' = "commit_config" /\ UNCHANGED failure
       \/ Raise(CommandError(OtherStderr))
    /\ UNCHANGED <<queue, confVars, dirty, drafts, cur, stackVars, idx, config, commit,
                   hbExit, logVars, running, calls, pushed, treeAtStart, stripErr, procVars>>

\* self.repo.commit(message=..., user='pulselistener')
CommitConfig ==
    /\ pc = "commit_config"
    /\ ops' = Append(ops, "commit")
    /\ \/ /\ drafts' = Append(drafts, CommitRecord("pulselistener",
                 "try_task_config for code-review\nDifferential Diff: " \o cur.phid,
                 "none", config))
          /\ dirty' = FALSE
          /\ pc' = "tip_guard"
          /\ UNCHANGED failure
       \/ /\ Raise(CommandError(OtherStderr))
          /\ UNCHANGED <<dirty, drafts>>
    /\ UNCHANGED <<queue, confVars, cur, stackVars, idx, config, commit, hbExit,
                   logVars, running, calls, pushed, treeAtStart, stripErr, procVars>>

NoopGuard_Off(node, b) == TRUE

\* assert commit.node != base.node
NoopGuard(node, b) == node # b

\* commit = self.repo.tip() and the assert that it is not the base
TipGuard ==
    /\ pc = "tip_guard"
    /\ ops' = Append(ops, "tip")
    /\ \/ \E node \in Nodes :
            /\ commit' = node
            /\ IF NoopGuard(node, base)
               THEN pc' = "push" /\ UNCHANGED failure
               ELSE Raise(AssertionError("Commit is the same as base, nothing changed !"))
       \/ /\ Raise(CommandError(OtherStderr))
          /\ UNCHANGED commit
    /\ UNCHANGED <<queue, confVars, dirty, drafts, cur, stackVars, idx, config, hbExit,
                   logVars, running, calls, pushed, treeAtStart, stripErr, procVars>>

\* self.repo.push(dest=REPO_TRY, rev=commit.node, force=True)
Push ==
    /\ pc = "push"
    /\ ops' = Append(ops, "push")
    /\ \/ /\ pushed' = Append(pushed, [id |-> cur.id, rev |-> commit, base |-> base,
                                       head |-> drafts[Len(drafts)]])
          /\ pc' = "publish_link"
          /\ UNCHANGED failure
       \/ /\ Raise(CommandError(OtherStderr))
          /\ UNCHANGED pushed
    /\ UNCHANGED <<queue, confVars, dirty, drafts, cur, stackVars, idx, config, commit,
                   hbExit, logVars, running, calls, treeAtStart, stripErr, procVars>>

TreeherderUrl(node) == "https://treeherder.mozilla.org/#/jobs?repo=try&revision=" \o node

ShouldLink_AnyTarget(build_target_phid, publish) == publish

\* if build_target_phid and self.publish_phabricator: after the push
ShouldLink(build_target_phid, publish) == build_target_phid # NULL /\ publish

\* the Treeherder link, then the return of push_to_try and of handle_build
PublishLink ==
    /\ pc = "publish_link"
    /\ IF ShouldLink(cur.build_target_phid, publish_phabricator)
       THEN /\ calls' = Append(calls, [op |-> "create_harbormaster_uri",
                                       target |-> cur.build_target_phid,
                                       arg |-> <<"treeherder", "Treeherder Jobs",
                                                 TreeherderUrl(commit)>>])
            /\ \/ /\ hbExit' = "True"
                  /\ running' = running \ {cur.id}
                  /\ pc' = "task_done"
                  /\ UNCHANGED failure
               \/ /\ Raise(GenericException("create_harbormaster_uri failed"))
                  /\ UNCHANGED <<hbExit, running>>
       ELSE /\ hbExit' = "True"
            /\ running' = running \ {cur.id}
            /\ pc' = "task_done"
            /\ UNCHANGED <<calls, failure>>
    /\ UNCHANGED <<queue, confVars, dirty, drafts, cur, stackVars, idx, config, commit,
                   logVars, ops, pushed, treeAtStart, stripErr, procVars>>

Next ==
    \/ Enqueue
    \/ Bootstrap
    \/ OpenRepo
    \/ Dequeue
    \/ TaskDone
    \/ HbRevert
    \/ HbReport
    \/ PtsSleep
    \/ CleanStrip
    \/ CleanPull
    \/ LoadStack
    \/ SearchDiffs
    \/ Import
    \/ ImportSleep
    \/ WriteConfig
    \/ AddConfig
    \/ CommitConfig
    \/ TipGuard
    \/ Push
    \/ PublishLink

Spec == Init /\ [][Next]_vars

\* the steps of the worker coroutine: every action but the producer's
WorkerNext ==
    \/ Bootstrap
    \/ OpenRepo
    \/ Dequeue
    \/ TaskDone
    \/ HbRevert
    \/ HbReport
    \/ PtsSleep
    \/ CleanStrip
    \/ CleanPull
    \/ LoadStack
    \/ SearchDiffs
    \/ Import
    \/ ImportSleep
    \/ WriteConfig
    \/ AddConfig
    \/ CommitConfig
    \/ TipGuard
    \/ Push
    \/ PublishLink

\* the event loop resumes the worker coroutine whenever it can take a step,
\* and every call it makes returns or raises
FairSpec == Init /\ [][Next]_vars /\ WF_vars(WorkerNext)

\* ---- the end of the process: atexit.register(self.cleanup) ----

\* the ways the process ends: the main program returns, an exception is not
\* caught, or a signal arrives (SIGINT becomes KeyboardInterrupt; SIGTERM and
\* SIGKILL are not handled by Python)
ExitModes == {"return", "error", "SIGINT", "SIGTERM", "SIGKILL"}

\* the functions registered with atexit run at the normal termination of the
\* interpreter, not when the process is killed by a signal Python does not handle
AtexitRuns(how) == how \in {"return", "error", "SIGINT"}

\* cleanup: os.unlink(self.ssh_key_path)
Cleanup(f) == FALSE

\* the process ends; what it held in memory is gone, the files stay
ProcessExit ==
    /\ pc # "exited"
    /\ \E how \in ExitModes :
         /\ how = "error" => pc \in {"crashed", "fatal"}
         /\ how = "return" => pc \in {"bootstrap", "dequeue", "pts_sleep", "import_sleep"}
         /\ exitHow' = how
         /\ ssh_key_file' = IF AtexitRuns(how) THEN Cleanup(ssh_key_file) ELSE ssh_key_file
    /\ pc' = "exited"
    /\ queue' = <<>>
    /\ repoOpen' = FALSE
    /\ cur' = NoEntry
    /\ base' = NULL
    /\ patches' = <<>>
    /\ commits' = {}
    /\ idx' = 0
    /\ config' = NoConfig
    /\ commit' = NULL
    /\ failure' = NoFailure
    /\ running' = {}
    /\ stripErr' = NoError
    /\ hbExit' = "none"
    /\ acks' = 0
    /\ enqueued' = <<>>
    /\ dequeued' = <<>>
    /\ started' = <<>>
    /\ ops' = <<>>
    /\ calls' = <<>>
    /\ pushed' = <<>>
    /\ treeAtStart' = <<FALSE, <<>>>>
    /\ UNCHANGED <<publish_phabricator, checkout, bootstrapRuns, dirty, drafts>>

NextShutdown ==
    \/ Next
    \/ ProcessExit

SpecShutdown == Init /\ [][NextShutdown]_vars

TypeOK ==
    /\ pc \in {"bootstrap", "open_repo", "fatal", "dequeue", "crashed", "task_done",
               "hb_revert", "hb_report", "pts_sleep", "clean_strip", "clean_pull",
               "load_stack", "search_diffs", "import", "import_sleep", "write_config",
               "add_config", "commit_config", "tip_guard", "push", "publish_link",
               "exited"}
    /\ hbExit \in {"none", "True", "False", "raised"}
    /\ dirty \in BOOLEAN
    /\ acks \in 0..MaxEntries

\* ---- helpers of the properties ----

Range(f) == {f[i] : i \in DOMAIN f}

IsPrefix(s, t) == Len(s) <= Len(t) /\ \A i \in 1..Len(s) : s[i] = t[i]

QueueIds == [i \in 1..Len(queue) |-> queue[i].id]

\* load_patches_stack returned an empty stack in the current run
EmptyStackRun == base # NULL /\ patches = <<>>

\* handle_build returned False and the next run has not started
AfterFailedRun == hbExit = "False" /\ pc \in {"task_done", "dequeue"}

\* ---- claims ----

\* C1: handle_build never ends by an exception, whatever fails during the
\* run, the revert and the failure report of the failure path included.
C1_NeverRaises == hbExit # "raised"

\* C2: the worker loop never terminates on a per-diff failure, an entry
\* that fails the validation on receipt included.
C2_LoopNeverTerminates == pc # "crashed"

\* C3: every dequeued entry is acknowledged by task_done exactly once
\* whatever its outcome: whenever the worker is not handling an entry, the
\* number of acknowledgements equals the number of entries dequeued.
C3_AckedAfterEveryEntry == pc \in {"dequeue", "crashed"} => acks = Len(dequeued)

\* C4: the entries whose run was started are a prefix of the enqueued
\* entries, and the entries dequeued followed by those still queued are the
\* enqueued ones: no reordering, no skipping, no duplicate, nothing put back.
C4_FifoExactlyOnce ==
    /\ IsPrefix(started, enqueued)
    /\ dequeued \o QueueIds = enqueued

C4_Witness ==
    /\ started = <<1, 2>>
    /\ hbExit = "False"
    /\ pc = "dequeue"

\* C5: at most one run is in progress, and while it is, the entry being
\* handled is the last one dequeued.
C5_OneRunAtATime ==
    /\ Cardinality(running) <= 1
    /\ running # {} => /\ running = {cur.id}
                       /\ dequeued[Len(dequeued)] = cur.id

C5_Witness ==
    /\ pc = "import_sleep"
    /\ running = {1}
    /\ queue # <<>>

\* C6: the bootstrap checkout runs once and has succeeded before anything is
\* dequeued; after a failed bootstrap the repository is never opened, nothing
\* is dequeued and no run starts.
C6_BootstrapFirst ==
    /\ bootstrapRuns <= 1
    /\ pc # "bootstrap" => bootstrapRuns = 1
    /\ (repoOpen \/ dequeued # <<>> \/ started # <<>>) => checkout = "done"
    /\ checkout = "failed" => /\ pc = "fatal"
                              /\ ~repoOpen
                              /\ dequeued = <<>>
                              /\ started = <<>>
                              /\ running = {}

C6_Witness ==
    /\ checkout = "failed"
    /\ Len(queue) = MaxEntries

\* C7 as stated: a run whose resolved stack is empty fails with the tree as
\* it was when the run started.
C7_TreeUntouched ==
    EmptyStackRun => /\ failure.name = "general"
                     /\ <<dirty, drafts>> = treeAtStart

\* C7 as amended: a run whose resolved stack is empty fails with a generic
\* error having issued no command but those of clean() (and then the revert):
\* nothing is imported, written, committed or pushed.
C7_NoCommitOnEmptyStack ==
    EmptyStackRun => /\ failure = HandleException(AssertionError("No patches to apply"))
                     /\ ops \in {<<"strip", "pull">>, <<"strip", "pull", "revert">>}
                     /\ drafts = <<>>
                     /\ ~dirty
                     /\ config = NoConfig
                     /\ pushed = <<>>
                     /\ hbExit # "True"

C7_Witness ==
    /\ EmptyStackRun
    /\ treeAtStart[2] # <<>>
    /\ hbExit = "False"

\* C8: a tip equal to the base fails the run with a generic error and nothing
\* is pushed; a run that pushed or returned True has a tip other than its base.
C8_NoopGuard ==
    /\ (commit # NULL /\ commit = base) =>
           /\ failure.name = "general"
           /\ failure.result = "Broken"
           /\ "push" \notin Range(ops)
           /\ pushed = <<>>
           /\ hbExit # "True"
    /\ (pc = "push" \/ pushed # <<>> \/ hbExit = "True") =>
           /\ commit # NULL
           /\ commit # base

C8_Witness ==
    /\ commit # NULL
    /\ commit = base
    /\ hbExit = "False"

C10_CleanAfterFailure == AfterFailedRun => ~dirty /\ drafts = <<>>

\* C10 as amended: after a failed run the tree has no uncommitted change; the
\* draft commits it made may remain, and the next run's clean() has removed
\* them before that run resolves its stack, so the drafts present while a run
\* imports are the ones that run made.
C10_CleanBeforeNextStack ==
    /\ AfterFailedRun => ~dirty
    /\ pc \in {"clean_pull", "load_stack", "search_diffs"} => drafts = <<>> /\ ~dirty
    /\ pc = "import" => Len(drafts) = idx - 1 /\ ~dirty

C10_Witness ==
    /\ AfterFailedRun
    /\ "commit" \in Range(ops)
    /\ drafts # <<>>
    /\ ~dirty

\* the calls of one API operation made by the current run, in order
CallsOf(op) == SelectSeq(calls, LAMBDA c : c.op = op)

\* C11: with publication disabled no run calls update_build_target or
\* create_harbormaster_uri, whatever its outcome and its build target.
C11_NoPublicationWhenDisabled ==
    ~publish_phabricator =>
        /\ CallsOf("update_build_target") = <<>>
        /\ CallsOf("create_harbormaster_uri") = <<>>

C11_Witness ==
    /\ ~publish_phabricator
    /\ cur.build_target_phid # NULL
    /\ hbExit = "False"
    /\ "push" \in Range(ops)

\* C12: a run that returned True called create_harbormaster_uri exactly once,
\* for its build target, with kind 'treeherder' and the URI of the pushed tip,
\* when it has a build target and publication is enabled, and not at all
\* otherwise; the call never precedes the push.
C12_LinkIffTargetAndPublish ==
    /\ hbExit = "True" =>
           IF cur.build_target_phid # NULL /\ publish_phabricator
           THEN /\ Len(pushed) = 1
                /\ CallsOf("create_harbormaster_uri") =
                       <<[op |-> "create_harbormaster_uri",
                          target |-> cur.build_target_phid,
                          arg |-> <<"treeherder", "Treeherder Jobs",
                                    "https://treeherder.mozilla.org/#/jobs?repo=try&revision="
                                        \o pushed[1].rev>>]>>
           ELSE CallsOf("create_harbormaster_uri") = <<>>
    /\ CallsOf("create_harbormaster_uri") # <<>> =>
           /\ Len(pushed) = 1
           /\ "push" \in Range(ops)

C12_Witness ==
    /\ hbExit = "True"
    /\ Len(CallsOf("create_harbormaster_uri")) = 1

\* handle_build has ended for a run that failed
RunFailed == failure # NoFailure /\ hbExit \in {"False", "raised"}

\* C13: every failure of a run is classified as mercurial/Fail, with the
\* stderr text in the details, or as general/Broken, and with publication
\* enabled a failed run has sent exactly one such UnitResult.
C13_ClassifiedAndReported ==
    /\ failure # NoFailure =>
           \/ /\ failure.name = "mercurial"
              /\ failure.result = "Fail"
              /\ Contains(failure.details, OtherStderr)
           \/ /\ failure.name = "general"
              /\ failure.result = "Broken"
    /\ (RunFailed /\ publish_phabricator) =>
           /\ Len(CallsOf("update_build_target")) = 1
           /\ CallsOf("update_build_target")[1].arg = failure

\* C14: a failing create_harbormaster_uri leaves the run a success (no
\* failure recorded, no revert), and a failing update_build_target is
\* swallowed, handle_build returning False.
C14_ReportingBestEffort ==
    /\ CallsOf("create_harbormaster_uri") # <<>> =>
           /\ failure = NoFailure
           /\ "revert" \notin Range(ops)
    /\ CallsOf("update_build_target") # <<>> => hbExit = "False"

\* C15: a strip that fails with the empty revision set is swallowed and the
\* pull is the next command; any other strip failure reaches handle_build
\* as it was raised and no pull is issued; a pull failure reaches it too.
C15_CleanSwallowsOnlyEmptyRevset ==
    /\ (stripErr # NoError /\ Contains(stripErr.err.bytes, EmptyRevset)) =>
           /\ Len(ops) = 1 => pc = "clean_pull" /\ failure = NoFailure
           /\ Len(ops) >= 2 => ops[2] = "pull"
    /\ (stripErr # NoError /\ ~Contains(stripErr.err.bytes, EmptyRevset)) =>
           /\ failure = HandleException(stripErr)
           /\ "pull" \notin Range(ops)
    /\ (Len(ops) >= 3 /\ ops[3] = "revert" /\ CallsOf("load_patches_stack") = <<>>) =>
           /\ ops[2] = "pull"
           /\ failure = HandleException(CommandError(OtherStderr))

C15_Witness ==
    /\ stripErr = CommandError(EmptyRevsetStderr)
    /\ ops = <<"strip", "pull">>
    /\ pc = "load_stack"

\* C16: once the process has ended, however it ended (return, error or
\* signal), the key file written by the constructor is gone.
C16_KeyRemovedAtExit == pc = "exited" => ~ssh_key_file

\* the id the claims expect where a target id is required
TargetOrPhid == IF cur.build_target_phid # NULL THEN cur.build_target_phid ELSE cur.phid

\* C17: every target id the worker passes outward (the phabricator_diff of
\* the config, update_build_target, create_harbormaster_uri) is not null: the
\* build target when there is one, the diff's phid otherwise.
C17_TargetNeverNull ==
    /\ config # NoConfig =>
           /\ config.phabricator_diff # NULL
           /\ config.phabricator_diff = TargetOrPhid
    /\ \A i \in DOMAIN calls :
           calls[i].op \in {"update_build_target", "create_harbormaster_uri"} =>
               /\ calls[i].target # NULL
               /\ calls[i].target = TargetOrPhid

\* the version-control commands of a run that gets to the push, for a
\* stack of n entries
Canon(n) == <<"strip", "pull">> \o [i \in 1..n |-> "import"] \o <<"add", "commit", "tip", "push">>

\* the commands of the current run before the revert of the failure path
Body == IF ops # <<>> /\ ops[Len(ops)] = "revert" THEN SubSeq(ops, 1, Len(ops) - 1) ELSE ops

\* C18: the commands of a run are a prefix of strip, pull, one import per
\* stack entry, add, commit, tip, push, followed at most by the revert; a
\* push is made at most once, after all of them, for a non-empty stack, a
\* written config and a tip that is not the base; once a step has failed no
\* later step runs; the dashboard link is created only after the push.
C18_PipelineOrder ==
    /\ "revert" \notin Range(Body)
    /\ IsPrefix(Body, Canon(Len(patches)))
    /\ (Len(Body) > 2 \/ pc = "search_diffs") => Len(patches) > 0
    /\ "add" \in Range(ops) => config # NoConfig
    /\ "push" \in Range(ops) =>
           /\ Body = Canon(Len(patches))
           /\ Len(drafts) = Len(patches) + 1
           /\ commit # base
    /\ Len(pushed) <= 1
    /\ pushed # <<>> => "push" \in Range(ops)
    /\ failure # NoFailure => pc \in {"hb_revert", "hb_report", "task_done", "dequeue", "crashed"}
    /\ CallsOf("create_harbormaster_uri") # <<>> => pushed # <<>>

C18_Witness ==
    /\ hbExit = "True"
    /\ Len(patches) = 2
    /\ ops = <<"strip", "pull", "import", "import", "add", "commit", "tip", "push">>

\* the import commands issued and the patch commits made by the current run
Imports == Len(SelectSeq(ops, LAMBDA o : o = "import"))
PatchCommits == SelectSeq(drafts, LAMBDA c : c.patch # "none")

\* C19: once the tree is cleaned, the patch commits of the run are those of
\* the first stack entries, in stack order, by 'pulselistener', with the
\* original message, a newline and the trailer, or the trailer alone; there
\* is one import per entry when all succeed, and none after a failed one.
C19_OneCommitPerEntry ==
    (Len(ops) >= 2 /\ ops[2] = "pull") =>
        /\ Imports <= Len(patches)
        /\ Len(PatchCommits) \in {Imports - 1, Imports}
        /\ Len(PatchCommits) < Imports => /\ failure.name = "mercurial"
                                          /\ ops[Len(Body)] = "import"
        /\ \A i \in 1..Len(PatchCommits) :
               /\ drafts[i].patch = patches[i].patch
               /\ drafts[i].user = "pulselistener"
               /\ drafts[i].message =
                      IF patches[i].phid \in commits
                      THEN "message of " \o patches[i].phid \o "\nDifferential Diff: "
                               \o patches[i].phid
                      ELSE "Differential Diff: " \o patches[i].phid
        /\ (pc = "write_config" \/ "add" \in Range(ops)) =>
               /\ Imports = Len(patches)
               /\ Len(PatchCommits) = Len(patches)

C19_Witness ==
    /\ pc = "write_config"
    /\ Len(patches) = 2
    /\ commits = {patches[2].phid}
    /\ Len(drafts) = 2

\* the config commit of the current run was made
ConfigCommitted == pc = "tip_guard" \/ "tip" \in Range(ops)

\* C20: the config commit holds version 2, 'codereview', optimize true and
\* phabricator_diff = the build target if supplied, else the diff's phid; its
\* message carries the trailer with the diff's own phid; a run that returned
\* True pushed the tip whose head is this config commit.
C20_TriggerConfig ==
    /\ ConfigCommitted =>
           LET c == drafts[Len(drafts)] IN
           /\ c.config = [version |-> 2, target_tasks_method |-> "codereview",
                          optimize_target_tasks |-> TRUE,
                          phabricator_diff |-> TargetOrPhid]
           /\ c.message = "try_task_config for code-review\nDifferential Diff: " \o cur.phid
           /\ c.user = "pulselistener"
           /\ c.patch = "none"
    /\ hbExit = "True" =>
           /\ Len(pushed) = 1
           /\ pushed[1].rev = commit
           /\ pushed[1].head = drafts[Len(drafts)]
           /\ ConfigCommitted

C20_Witness ==
    /\ hbExit = "True"
    /\ cur.build_target_phid # NULL
    /\ drafts[Len(drafts)].config.phabricator_diff = cur.build_target_phid

\* C21: a run makes at most one search_diffs call; a run whose stack is not
\* empty has made exactly one, carrying the phids of all the stack entries in
\* stack order, when it is past the search and so before its first import; a
\* run whose stack is empty makes none.
C21_OneBatchedSearch ==
    /\ Len(CallsOf("search_diffs")) <= 1
    /\ patches = <<>> => CallsOf("search_diffs") = <<>>
    /\ (patches # <<>> /\ pc # "search_diffs") =>
           /\ Len(CallsOf("search_diffs")) = 1
           /\ CallsOf("search_diffs")[1].arg = [i \in 1..Len(patches) |-> patches[i].phid]
    /\ "import" \in Range(ops) => Len(CallsOf("search_diffs")) = 1

C21_Witness ==
    /\ pc = "write_config"
    /\ Len(patches) = 2
    /\ Len(SelectSeq(ops, LAMBDA o : o = "import")) = 2
    /\ Len(CallsOf("search_diffs")) = 1
    /\ Len(CallsOf("search_diffs")[1].arg) = 2

\* C22: once the bootstrap has succeeded and the repository is open, every
\* entry that is enqueued is eventually dequeued, handled and acknowledged
\* (the i-th entry enqueued leads to i acknowledgements).
C22_QueueDrains ==
    \A i \in 1..MaxEntries :
        (repoOpen /\ Len(enqueued) >= i) ~> (Len(dequeued) >= i /\ acks >= i)

====
